---- MODULE Spec2Model ----
(***************************************************************************)
(* Product catalog REST service: the request handlers of                   *)
(* service/routes.py over the Product entity and its query layer.          *)
(* The entity and query layer (service/models.py) are not among the        *)
(* sources; they are modelled from sections 3, 4.1 and 4.2 of the          *)
(* specification.                                                          *)
(***************************************************************************)
EXTENDS Integers, Sequences, FiniteSets, TLC

VARIABLES table, nextId, session, req, resp, before, threads

vars == <<table, nextId, session, req, resp, before, threads>>

(***************************************************************************)
(* Bounds                                                                  *)
(***************************************************************************)
\* creates admitted in one behaviour (caps the storage id sequence)
MaxProducts == 3

(***************************************************************************)
(* Status codes used by the handlers                                       *)
(***************************************************************************)
HTTP_200_OK == 200
HTTP_201_CREATED == 201
HTTP_204_NO_CONTENT == 204
HTTP_400_BAD_REQUEST == 400
HTTP_404_NOT_FOUND == 404
HTTP_415_UNSUPPORTED_MEDIA_TYPE == 415
HTTP_500_INTERNAL_SERVER_ERROR == 500

(***************************************************************************)
(* Wire values: what a JSON document holds under one key.                  *)
(*   t = "absent"  the key is not in the mapping                           *)
(*   t = "str"     a JSON string s                                         *)
(*   t = "bool"    a JSON boolean b                                        *)
(*   t = "num"     a JSON integer n                                        *)
(*   t = "dec"     a decimal numeral: d = <<units, hundredths>>            *)
(***************************************************************************)
Absent == [t |-> "absent", s |-> "", b |-> FALSE, n |-> 0, d |-> <<>>]
Str(x) == [t |-> "str", s |-> x, b |-> FALSE, n |-> 0, d |-> <<>>]
Bool(x) == [t |-> "bool", s |-> "", b |-> x, n |-> 0, d |-> <<>>]
Num(x) == [t |-> "num", s |-> "", b |-> FALSE, n |-> x, d |-> <<>>]
Dec(u, h) == [t |-> "dec", s |-> "", b |-> FALSE, n |-> 0, d |-> <<u, h>>]

Keys == {"id", "name", "description", "price", "available", "category"}

\* a JSON object over the product keys
Mapping(i, nm, ds, pr, av, ca) ==
    [id |-> i, name |-> nm, description |-> ds, price |-> pr,
     available |-> av, category |-> ca]

EmptyMapping == Mapping(Absent, Absent, Absent, Absent, Absent, Absent)

(***************************************************************************)
(* Request bodies: kind "object" carries a mapping; "none" is a missing    *)
(* body, "badjson" a body that does not parse, "array" a JSON document     *)
(* that parses to a non-empty list.                                        *)
(***************************************************************************)
Object(m) == [kind |-> "object", f |-> m]
NoBody == [kind |-> "none", f |-> EmptyMapping]
BadJson == [kind |-> "badjson", f |-> EmptyMapping]
ArrayBody == [kind |-> "array", f |-> EmptyMapping]

(***************************************************************************)
(* Category enumeration (section 3): a member is its position in the       *)
(* closed list, its name the string at that position.                      *)
(***************************************************************************)
CategoryNames == <<"UNKNOWN", "CLOTHS", "FOOD", "HOUSEWARES", "AUTOMOTIVE", "TOOLS">>

Category == 0 .. (Len(CategoryNames) - 1)

CategoryName(c) == CategoryNames[c + 1]

IsCategoryName(x) == \E c \in Category : CategoryName(c) = x

CategoryByName(x) == CHOOSE c \in Category : CategoryName(c) = x

(***************************************************************************)
(* Price: a decimal kept as hundredths; its text is the decimal numeral.   *)
(***************************************************************************)
PriceText(p) == Dec(p \div 100, p % 100)

ParsePrice(w) == IF w.t = "dec" THEN w.d[1] * 100 + w.d[2] ELSE w.n * 100

(***************************************************************************)
(* Product entity (sections 3 and 4.1)                                     *)
(***************************************************************************)
NoneId == -1

\* Product(): every column unset
NewProduct ==
    [id |-> NoneId, name |-> "", description |-> "", price |-> 0,
     available |-> FALSE, category |-> 0]

serialize(p) ==
    Mapping(Num(p.id), Str(p.name), Str(p.description), PriceText(p.price),
            Bool(p.available), Str(CategoryName(p.category)))

\* deserialize(data) on product p: the fields are read in the order name,
\* description, price, available, category; the first failure raises and
\* leaves the fields read so far assigned.
deserialize(p, data) ==
    IF data.kind # "object" THEN [ok |-> FALSE, product |-> p]
    ELSE LET m == data.f
             p1 == [p EXCEPT !.name = m.name.s]
             p2 == [p1 EXCEPT !.description = m.description.s]
             p3 == [p2 EXCEPT !.price = ParsePrice(m.price)]
             p4 == [p3 EXCEPT !.available = m.available.b]
             p5 == [p4 EXCEPT !.category = CategoryByName(m.category.s)]
         IN  IF m.name.t # "str" THEN [ok |-> FALSE, product |-> p]
             ELSE IF m.description.t # "str" THEN [ok |-> FALSE, product |-> p1]
             ELSE IF m.price.t \notin {"dec", "num"} THEN [ok |-> FALSE, product |-> p2]
             ELSE IF m.available.t # "bool" THEN [ok |-> FALSE, product |-> p3]
             ELSE IF m.category.t # "str" \/ ~IsCategoryName(m.category.s)
                  THEN [ok |-> FALSE, product |-> p4]
             ELSE [ok |-> TRUE, product |-> p5]

(***************************************************************************)
(* Query layer (section 4.2) over the persisted rows                       *)
(***************************************************************************)
all(t) == t

Found(t, id) == \E r \in t : r.id = id

find(t, id) == CHOOSE r \in t : r.id = id

find_by_name(t, name) == {r \in t : r.name = name}

find_by_category(t, category) == {r \in t : CategoryName(r.category) = category}

find_by_availability(t, available) == {r \in t : r.available = available}

\* create(): the storage layer draws the id from its sequence and inserts
create(t, p, seq) == t \cup {[p EXCEPT !.id = seq]}

\* update(): the row of this id is replaced by the entity's columns
update(t, p) == {r \in t : r.id # p.id} \cup {p}

\* delete(): the row of this id is removed
delete(t, p) == {r \in t : r.id # p.id}

\* the rows of a query in storage order (by id)
RECURSIVE Rows(_)
Rows(S) ==
    IF S = {} THEN <<>>
    ELSE LET r == CHOOSE x \in S : \A y \in S : x.id <= y.id
         IN  <<r>> \o Rows(S \ {r})

(***************************************************************************)
(* Requests and responses                                                  *)
(***************************************************************************)
NoArg == [present |-> FALSE, v |-> ""]
Arg(x) == [present |-> TRUE, v |-> x]
NoArgs == [name |-> NoArg, category |-> NoArg, available |-> NoArg]

NoContentType == [present |-> FALSE, v |-> ""]
ContentType(x) == [present |-> TRUE, v |-> x]

\* the URL map built by the @app.route decorators: rule, method, endpoint
UrlMap ==
    { [rule |-> "/health", method |-> "GET", endpoint |-> "healthcheck"],
      [rule |-> "/", method |-> "GET", endpoint |-> "index"],
      [rule |-> "/api/products/reset", method |-> "DELETE", endpoint |-> "reset_products"],
      [rule |-> "/api/products", method |-> "POST", endpoint |-> "create_products"],
      [rule |-> "/api/products/<int:product_id>", method |-> "GET",
       endpoint |-> "get_products"],
      [rule |-> "/api/products/<int:product_id>", method |-> "PUT",
       endpoint |-> "update_products"],
      [rule |-> "/api/products/<int:product_id>", method |-> "DELETE",
       endpoint |-> "delete_products"],
      [rule |-> "/api/products", method |-> "GET", endpoint |-> "list_products"] }

\* the rules a request of this method and path matches (a path is written
\* as its rule, the id of an item path apart)
Match(method, path) == {u \in UrlMap : u.method = method /\ u.rule = path}

\* the rule under which an endpoint is reached
RuleOf(op) ==
    IF \E u \in UrlMap : u.endpoint = op
    THEN CHOOSE u \in UrlMap : u.endpoint = op
    ELSE [rule |-> "", method |-> "", endpoint |-> op]

\* a request as the view sees it: the endpoint the router chose, the method
\* and path that matched, and what flask.request carries
Request(op, id, ct, body, args) ==
    [op |-> op, id |-> id, ctype |-> ct, body |-> body, args |-> args,
     method |-> RuleOf(op).method, path |-> RuleOf(op).rule]

\* url_for("get_products", product_id=id)
NoLocation == [rule |-> "", id |-> 0]
url_for_get_products(id) == [rule |-> "/api/products/<int:product_id>", id |-> id]

Response(status, kind, items, location) ==
    [status |-> status, kind |-> kind, items |-> items, location |-> location]

\* abort(code, message): an error page and nothing else
abort(code) == Response(code, "error", <<>>, NoLocation)

\* an exception no handler is registered for leaves the view
Unhandled == Response(HTTP_500_INTERNAL_SERVER_ERROR, "error", <<>>, NoLocation)

jsonify_one(p, status, location) == Response(status, "object", <<serialize(p)>>, location)

jsonify_list(S) ==
    Response(HTTP_200_OK, "array", [i \in 1 .. Cardinality(S) |-> serialize(Rows(S)[i])],
             NoLocation)

check_content_type(ct, content_type) == ct.present /\ ct.v = content_type

\* request.get_json() fails on a missing or unparsable body
JsonFails(body) == body.kind \in {"none", "badjson"}

\* `not data`: an object without keys is falsy
Falsy(body) == body.kind = "object" /\ \A k \in Keys : body.f[k].t = "absent"

(***************************************************************************)
(* Handlers: each yields the response and the storage it leaves.           *)
(***************************************************************************)
\* `dirty` holds the loaded entities the view has changed without committing
Outcome(r, t, seq) == [resp |-> r, table |-> t, nextId |-> seq, dirty |-> {}]

\* deserialize raised on entity p loaded by find(): the exception leaves the
\* view with p changed in the session and nothing committed
Raised(t, seq, p) == [Outcome(Unhandled, t, seq) EXCEPT !.dirty = {p}]

\* GET /health
healthcheck_view(t, seq) ==
    Outcome(Response(HTTP_200_OK, "object", <<>>, NoLocation), t, seq)

\* GET /
index_view(t, seq) ==
    Outcome(Response(HTTP_200_OK, "html", <<>>, NoLocation), t, seq)

\* the rows are deleted in the session but the commit is left out
reset_products_view_NoCommit(t, seq) ==
    Outcome(Response(HTTP_204_NO_CONTENT, "empty", <<>>, NoLocation), t, seq)

\* DELETE /api/products/reset
reset_products_view(t, seq) ==
    Outcome(Response(HTTP_204_NO_CONTENT, "empty", <<>>, NoLocation), {}, seq)

\* the response is serialized before product.create() has assigned the id
create_products_view_SerializeBeforeCreate(t, seq, ct, body) ==
    IF ~check_content_type(ct, "application/json")
    THEN Outcome(abort(HTTP_415_UNSUPPORTED_MEDIA_TYPE), t, seq)
    ELSE IF JsonFails(body) \/ Falsy(body)
    THEN Outcome(abort(HTTP_400_BAD_REQUEST), t, seq)
    ELSE LET d == deserialize(NewProduct, body)
         IN  IF ~d.ok THEN Outcome(Unhandled, t, seq)
             ELSE Outcome(jsonify_one(d.product, HTTP_201_CREATED,
                                      url_for_get_products(seq)),
                          create(t, d.product, seq), seq + 1)

\* product.create() is left out: the entity is answered but never persisted
create_products_view_NoCreate(t, seq, ct, body) ==
    IF ~check_content_type(ct, "application/json")
    THEN Outcome(abort(HTTP_415_UNSUPPORTED_MEDIA_TYPE), t, seq)
    ELSE IF JsonFails(body) \/ Falsy(body)
    THEN Outcome(abort(HTTP_400_BAD_REQUEST), t, seq)
    ELSE LET d == deserialize(NewProduct, body)
             product == [d.product EXCEPT !.id = seq]
         IN  IF ~d.ok THEN Outcome(Unhandled, t, seq)
             ELSE Outcome(jsonify_one(product, HTTP_201_CREATED,
                                      url_for_get_products(product.id)),
                          t, seq + 1)

\* the id of the body, when it carries one, is kept for the new row
create_products_view_BodyId(t, seq, ct, body) ==
    IF ~check_content_type(ct, "application/json")
    THEN Outcome(abort(HTTP_415_UNSUPPORTED_MEDIA_TYPE), t, seq)
    ELSE IF JsonFails(body) \/ Falsy(body)
    THEN Outcome(abort(HTTP_400_BAD_REQUEST), t, seq)
    ELSE LET d == deserialize(NewProduct, body)
             id == IF body.f.id.t = "num" /\ body.f.id.n > 0 THEN body.f.id.n ELSE seq
             product == [d.product EXCEPT !.id = id]
         IN  IF ~d.ok THEN Outcome(Unhandled, t, seq)
             ELSE Outcome(jsonify_one(product, HTTP_201_CREATED,
                                      url_for_get_products(product.id)),
                          t \cup {product}, seq + 1)

\* the response serializes a blank Product() carrying the new id
create_products_view_BlankBody(t, seq, ct, body) ==
    IF ~check_content_type(ct, "application/json")
    THEN Outcome(abort(HTTP_415_UNSUPPORTED_MEDIA_TYPE), t, seq)
    ELSE IF JsonFails(body) \/ Falsy(body)
    THEN Outcome(abort(HTTP_400_BAD_REQUEST), t, seq)
    ELSE LET d == deserialize(NewProduct, body)
             product == [NewProduct EXCEPT !.id = seq]
         IN  IF ~d.ok THEN Outcome(Unhandled, t, seq)
             ELSE Outcome(jsonify_one(product, HTTP_201_CREATED,
                                      url_for_get_products(product.id)),
                          create(t, d.product, seq), seq + 1)

\* POST /api/products
create_products_view(t, seq, ct, body) ==
    IF ~check_content_type(ct, "application/json")
    THEN Outcome(abort(HTTP_415_UNSUPPORTED_MEDIA_TYPE), t, seq)
    ELSE IF JsonFails(body) \/ Falsy(body)
    THEN Outcome(abort(HTTP_400_BAD_REQUEST), t, seq)
    ELSE LET d == deserialize(NewProduct, body)
             product == [d.product EXCEPT !.id = seq]
         IN  IF ~d.ok THEN Outcome(Unhandled, t, seq)
             ELSE Outcome(jsonify_one(product, HTTP_201_CREATED,
                                      url_for_get_products(product.id)),
                          create(t, d.product, seq), seq + 1)

\* the row that is read is removed from storage
get_products_view_Consume(t, seq, product_id) ==
    IF ~Found(t, product_id)
    THEN Outcome(abort(HTTP_404_NOT_FOUND), t, seq)
    ELSE Outcome(jsonify_one(find(t, product_id), HTTP_200_OK, NoLocation),
                 delete(t, find(t, product_id)), seq)

\* GET /api/products/<int:product_id>
get_products_view(t, seq, product_id) ==
    IF ~Found(t, product_id)
    THEN Outcome(abort(HTTP_404_NOT_FOUND), t, seq)
    ELSE Outcome(jsonify_one(find(t, product_id), HTTP_200_OK, NoLocation), t, seq)

\* the product is looked up before the Content-Type is checked
update_products_view_FindFirst(t, seq, product_id, ct, body) ==
    IF ~Found(t, product_id)
    THEN Outcome(abort(HTTP_404_NOT_FOUND), t, seq)
    ELSE IF ~check_content_type(ct, "application/json")
    THEN Outcome(abort(HTTP_415_UNSUPPORTED_MEDIA_TYPE), t, seq)
    ELSE IF JsonFails(body) \/ Falsy(body)
    THEN Outcome(abort(HTTP_400_BAD_REQUEST), t, seq)
    ELSE LET d == deserialize(find(t, product_id), body)
             product == [d.product EXCEPT !.id = product_id]
         IN  IF ~d.ok THEN Outcome(Unhandled, t, seq)
             ELSE Outcome(jsonify_one(product, HTTP_200_OK, NoLocation),
                          update(t, product), seq)

\* the id of the body, when it carries one, replaces the id of the path
update_products_view_BodyId(t, seq, product_id, ct, body) ==
    IF ~check_content_type(ct, "application/json")
    THEN Outcome(abort(HTTP_415_UNSUPPORTED_MEDIA_TYPE), t, seq)
    ELSE IF ~Found(t, product_id)
    THEN Outcome(abort(HTTP_404_NOT_FOUND), t, seq)
    ELSE IF JsonFails(body) \/ Falsy(body)
    THEN Outcome(abort(HTTP_400_BAD_REQUEST), t, seq)
    ELSE LET d == deserialize(find(t, product_id), body)
             id == IF body.f.id.t = "num" THEN body.f.id.n ELSE product_id
             product == [d.product EXCEPT !.id = id]
         IN  IF ~d.ok THEN Outcome(Unhandled, t, seq)
             ELSE Outcome(jsonify_one(product, HTTP_200_OK, NoLocation),
                          update(t, product), seq)

\* an id that is not stored is created instead of answered 404
update_products_view_Upsert(t, seq, product_id, ct, body) ==
    IF ~check_content_type(ct, "application/json")
    THEN Outcome(abort(HTTP_415_UNSUPPORTED_MEDIA_TYPE), t, seq)
    ELSE IF JsonFails(body) \/ Falsy(body)
    THEN Outcome(abort(HTTP_400_BAD_REQUEST), t, seq)
    ELSE LET d == deserialize(IF Found(t, product_id) THEN find(t, product_id)
                              ELSE NewProduct, body)
             product == [d.product EXCEPT !.id = product_id]
         IN  IF ~d.ok THEN Outcome(Unhandled, t, seq)
             ELSE Outcome(jsonify_one(product, HTTP_200_OK, NoLocation),
                          update(t, product), seq)

\* the entity is saved although deserialize raised (update() in a finally)
update_products_view_SavePartial(t, seq, product_id, ct, body) ==
    IF ~check_content_type(ct, "application/json")
    THEN Outcome(abort(HTTP_415_UNSUPPORTED_MEDIA_TYPE), t, seq)
    ELSE IF ~Found(t, product_id)
    THEN Outcome(abort(HTTP_404_NOT_FOUND), t, seq)
    ELSE IF JsonFails(body) \/ Falsy(body)
    THEN Outcome(abort(HTTP_400_BAD_REQUEST), t, seq)
    ELSE LET d == deserialize(find(t, product_id), body)
             product == [d.product EXCEPT !.id = product_id]
         IN  IF ~d.ok THEN Outcome(Unhandled, update(t, product), seq)
             ELSE Outcome(jsonify_one(product, HTTP_200_OK, NoLocation),
                          update(t, product), seq)

\* PUT /api/products/<int:product_id>
update_products_view(t, seq, product_id, ct, body) ==
    IF ~check_content_type(ct, "application/json")
    THEN Outcome(abort(HTTP_415_UNSUPPORTED_MEDIA_TYPE), t, seq)
    ELSE IF ~Found(t, product_id)
    THEN Outcome(abort(HTTP_404_NOT_FOUND), t, seq)
    ELSE IF JsonFails(body) \/ Falsy(body)
    THEN Outcome(abort(HTTP_400_BAD_REQUEST), t, seq)
    ELSE LET d == deserialize(find(t, product_id), body)
             product == [d.product EXCEPT !.id = product_id]
         IN  IF ~d.ok THEN Raised(t, seq, d.product)
             ELSE Outcome(jsonify_one(product, HTTP_200_OK, NoLocation),
                          update(t, product), seq)

\* an id that is not stored is answered 404
delete_products_view_NotFound(t, seq, product_id) ==
    IF Found(t, product_id)
    THEN Outcome(Response(HTTP_204_NO_CONTENT, "empty", <<>>, NoLocation),
                 delete(t, find(t, product_id)), seq)
    ELSE Outcome(abort(HTTP_404_NOT_FOUND), t, seq)

\* DELETE /api/products/<int:product_id>
delete_products_view(t, seq, product_id) ==
    Outcome(Response(HTTP_204_NO_CONTENT, "empty", <<>>, NoLocation),
            IF Found(t, product_id) THEN delete(t, find(t, product_id)) ELSE t,
            seq)

\* str.lower() on the query values in use
Lower(x) ==
    CASE x \in {"True", "TRUE"} -> "true"
      [] x \in {"Yes", "YES"} -> "yes"
      [] x \in {"False", "FALSE"} -> "false"
      [] OTHER -> x

\* a query value that is present and not the empty string
Truthy(a) == a.present /\ a.v # ""

\* the availability word is compared without .lower()
list_products_view_CaseSensitive(t, seq, args) ==
    LET products ==
            IF Truthy(args.name) THEN find_by_name(t, args.name.v)
            ELSE IF Truthy(args.category) THEN find_by_category(t, args.category.v)
            ELSE IF args.available.present
                 THEN find_by_availability(t, args.available.v \in {"true", "1", "yes"})
            ELSE all(t)
    IN  Outcome(jsonify_list(products), t, seq)

\* the name filter is tested with `is not None`
list_products_view_NameIsNotNone(t, seq, args) ==
    LET products ==
            IF args.name.present THEN find_by_name(t, args.name.v)
            ELSE IF Truthy(args.category) THEN find_by_category(t, args.category.v)
            ELSE IF args.available.present
                 THEN find_by_availability(t, Lower(args.available.v) \in {"true", "1", "yes"})
            ELSE all(t)
    IN  Outcome(jsonify_list(products), t, seq)

\* the category filter is tested before the name filter
list_products_view_CategoryFirst(t, seq, args) ==
    LET products ==
            IF Truthy(args.category) THEN find_by_category(t, args.category.v)
            ELSE IF Truthy(args.name) THEN find_by_name(t, args.name.v)
            ELSE IF args.available.present
                 THEN find_by_availability(t, Lower(args.available.v) \in {"true", "1", "yes"})
            ELSE all(t)
    IN  Outcome(jsonify_list(products), t, seq)

\* the category branch queries by name
list_products_view_CategoryAsName(t, seq, args) ==
    LET products ==
            IF Truthy(args.name) THEN find_by_name(t, args.name.v)
            ELSE IF Truthy(args.category) THEN find_by_name(t, args.category.v)
            ELSE IF args.available.present
                 THEN find_by_availability(t, Lower(args.available.v) \in {"true", "1", "yes"})
            ELSE all(t)
    IN  Outcome(jsonify_list(products), t, seq)

\* GET /api/products
list_products_view(t, seq, args) ==
    LET products ==
            IF Truthy(args.name) THEN find_by_name(t, args.name.v)
            ELSE IF Truthy(args.category) THEN find_by_category(t, args.category.v)
            ELSE IF args.available.present
                 THEN find_by_availability(t, Lower(args.available.v) \in {"true", "1", "yes"})
            ELSE all(t)
    IN  Outcome(jsonify_list(products), t, seq)

(***************************************************************************)
(* Inputs                                                                  *)
(***************************************************************************)
\* ids a client may put in the path; 0 is never stored
ProductIds == 0 .. MaxProducts

ContentTypes ==
    {NoContentType, ContentType("application/json"), ContentType("text/plain"),
     ContentType("application/json; charset=utf-8")}

\* the field values clients send (names of tests/factories.py)
ValidMappings ==
    { Mapping(Absent, Str("Widget"), Str("A red hat"), Dec(12, 50), Bool(TRUE), Str("CLOTHS")),
      Mapping(Num(0), Str("Gadget"), Str("A red hat"), Dec(12, 50), Bool(TRUE), Str("CLOTHS")),
      Mapping(Num(1), Str("Widget"), Str("A snack"), Num(9), Bool(FALSE), Str("FOOD")),
      Mapping(Num(2), Str("Gadget"), Str("A snack"), Dec(0, 5), Bool(FALSE), Str("CLOTHS")) }

InvalidMappings ==
    { EmptyMapping,
      Mapping(Absent, Absent, Str("A red hat"), Dec(12, 50), Bool(TRUE), Str("CLOTHS")),
      Mapping(Absent, Str("Doodad"), Str("A toy"), Dec(1, 0), Absent, Str("FOOD")),
      Mapping(Absent, Str("Doodad"), Str("A toy"), Dec(1, 0), Str("yes"), Str("FOOD")),
      Mapping(Absent, Str("Doodad"), Str("A toy"), Dec(1, 0), Bool(TRUE), Str("BOGUS")),
      Mapping(Absent, Str("Doodad"), Str("A toy"), Dec(1, 0), Bool(TRUE), Absent) }

Bodies ==
    {NoBody, BadJson, ArrayBody} \cup {Object(m) : m \in ValidMappings \cup InvalidMappings}

NameArgs == {NoArg, Arg(""), Arg("Widget"), Arg("Gadget"), Arg("Doodad")}

CategoryArgs == {NoArg, Arg(""), Arg("CLOTHS"), Arg("FOOD")}

AvailableArgs ==
    {NoArg, Arg(""), Arg("true"), Arg("True"), Arg("1"), Arg("YES"),
     Arg("false"), Arg("0"), Arg("no")}

QueryArgs ==
    [name : NameArgs, category : CategoryArgs, available : AvailableArgs]

\* the method/path pairs clients use for the product operations: those of
\* BASE_URL = "/products" in tests/test_routes.py (the table of section 4.3)
ClientRoutes ==
    { [rule |-> "/products", method |-> "POST", endpoint |-> "create_products",
       item |-> FALSE],
      [rule |-> "/products", method |-> "GET", endpoint |-> "list_products",
       item |-> FALSE],
      [rule |-> "/products/<int:product_id>", method |-> "GET",
       endpoint |-> "get_products", item |-> TRUE],
      [rule |-> "/products/<int:product_id>", method |-> "PUT",
       endpoint |-> "update_products", item |-> TRUE],
      [rule |-> "/products/<int:product_id>", method |-> "DELETE",
       endpoint |-> "delete_products", item |-> TRUE],
      [rule |-> "/products/reset", method |-> "DELETE", endpoint |-> "reset_products",
       item |-> FALSE] }

(***************************************************************************)
(* State machine: one action per handler; `req` and `resp` hold the last   *)
(* exchange and `before` the rows stored when the request arrived.         *)
(***************************************************************************)
NoRequest == Request("", 0, NoContentType, NoBody, NoArgs)

NoResponse == Response(0, "", <<>>, NoLocation)

Init ==
    /\ table = {}
    /\ nextId = 1
    /\ session = {}
    /\ req = NoRequest
    /\ resp = NoResponse
    /\ before = {}
    /\ threads = <<>>

\* the requests whose view reaches db.session.commit(): reset, a create or
\* update that succeeds, a delete that found its product
Commits(r, out, t) ==
    \/ r.op = "reset_products"
    \/ r.op = "create_products" /\ out.resp.status = HTTP_201_CREATED
    \/ r.op = "update_products" /\ out.resp.status = HTTP_200_OK
    \/ r.op = "delete_products" /\ Found(t, r.id)

\* a commit writes the changed entities of the session to their rows
Flush(t, s) ==
    {r \in t : \A p \in s : p.id # r.id} \cup {p \in s : Found(t, p.id)}

\* a request is taken up when no other is being answered (section 5: one
\* synchronous sequence per request)
Serve(r, out) ==
    /\ req = NoRequest
    /\ req' = r
    /\ resp' = out.resp
    /\ table' = IF Commits(r, out, table) THEN Flush(out.table, session) ELSE out.table
    /\ nextId' = out.nextId
    /\ session' = IF Commits(r, out, table) THEN {} ELSE session \cup out.dirty
    /\ before' = table
    /\ UNCHANGED threads

\* the response has been sent and the request context is gone, and with it
\* the session and what it held uncommitted
teardown_request ==
    /\ req # NoRequest
    /\ req' = NoRequest
    /\ resp' = NoResponse
    /\ session' = {}
    /\ before' = table
    /\ UNCHANGED threads
    /\ UNCHANGED <<table, nextId>>

healthcheck ==
    Serve(Request("healthcheck", 0, NoContentType, NoBody, NoArgs),
          healthcheck_view(table, nextId))

index ==
    Serve(Request("index", 0, NoContentType, NoBody, NoArgs),
          index_view(table, nextId))

reset_products ==
    Serve(Request("reset_products", 0, NoContentType, NoBody, NoArgs),
          reset_products_view(table, nextId))

create_products(ct, body) ==
    LET out == create_products_view(table, nextId, ct, body)
    IN  /\ out.nextId <= MaxProducts + 1
        /\ Serve(Request("create_products", 0, ct, body, NoArgs), out)

get_products(product_id) ==
    Serve(Request("get_products", product_id, NoContentType, NoBody, NoArgs),
          get_products_view(table, nextId, product_id))

update_products(product_id, ct, body) ==
    Serve(Request("update_products", product_id, ct, body, NoArgs),
          update_products_view(table, nextId, product_id, ct, body))

delete_products(product_id) ==
    Serve(Request("delete_products", product_id, NoContentType, NoBody, NoArgs),
          delete_products_view(table, nextId, product_id))

list_products(args) ==
    Serve(Request("list_products", 0, NoContentType, NoBody, args),
          list_products_view(table, nextId, args))

\* a request whose method and path match no rule is answered 404 by the
\* router; no view runs
route_not_found(method, path, id) ==
    /\ Match(method, path) = {}
    /\ Serve([Request("not_found", id, ContentType("application/json"), NoBody, NoArgs)
                EXCEPT !.method = method, !.path = path],
             Outcome(abort(HTTP_404_NOT_FOUND), table, nextId))

Next ==
    \/ healthcheck
    \/ index
    \/ reset_products
    \/ \E ct \in ContentTypes, body \in Bodies : create_products(ct, body)
    \/ \E id \in ProductIds : get_products(id)
    \/ \E id \in ProductIds, ct \in ContentTypes, body \in Bodies :
            update_products(id, ct, body)
    \/ \E id \in ProductIds : delete_products(id)
    \/ \E args \in QueryArgs : list_products(args)
    \/ \E c \in ClientRoutes, id \in ProductIds :
            /\ id # 0 => c.item
            /\ route_not_found(c.method, c.rule, id)
    \/ teardown_request

Spec == Init /\ [][Next]_vars

(***************************************************************************)
(* Two delete requests for one id served by two threads at once. Each      *)
(* thread runs delete_products in two steps, the find and then the delete  *)
(* with its response; each has its own session.                            *)
(***************************************************************************)
Threads == {"t1", "t2"}

\* the rows a table may hold: the valid mappings under each id
StoredRows ==
    { [deserialize(NewProduct, Object(m)).product EXCEPT !.id = i] :
        m \in ValidMappings, i \in 1 .. MaxProducts }

Tables == {t \in SUBSET StoredRows : \A r1, r2 \in t : r1.id = r2.id => r1 = r2}

\* product = Product.find(product_id)
delete_products_find(t, th) ==
    [th EXCEPT !.pc = "delete",
               !.found = Found(t, th.id),
               !.product = IF Found(t, th.id) THEN find(t, th.id) ELSE NewProduct]

\* the product found is deleted again only if it is still stored; a product
\* gone in the meantime is answered 404
delete_products_delete_Recheck(t, th) ==
    IF th.found /\ ~Found(t, th.id)
    THEN [table |-> t, thread |-> [th EXCEPT !.pc = "done", !.status = HTTP_404_NOT_FOUND]]
    ELSE [table |-> IF th.found THEN delete(t, th.product) ELSE t,
          thread |-> [th EXCEPT !.pc = "done", !.status = HTTP_204_NO_CONTENT]]

\* if product: product.delete(); return "", 204
delete_products_delete(t, th) ==
    [table |-> IF th.found THEN delete(t, th.product) ELSE t,
     thread |-> [th EXCEPT !.pc = "done", !.status = HTTP_204_NO_CONTENT]]

InitConc ==
    /\ table \in Tables
    /\ nextId = MaxProducts + 1
    /\ session = {}
    /\ req = NoRequest
    /\ resp = NoResponse
    /\ before = table
    /\ \E id \in ProductIds :
          threads = [w \in Threads |->
                        [pc |-> "find", id |-> id, found |-> FALSE,
                         product |-> NewProduct, status |-> 0]]

FindStep(w) ==
    /\ threads[w].pc = "find"
    /\ threads' = [threads EXCEPT ![w] = delete_products_find(table, threads[w])]
    /\ UNCHANGED <<table, nextId, session, req, resp, before>>

DeleteStep(w) ==
    /\ threads[w].pc = "delete"
    /\ LET out == delete_products_delete(table, threads[w])
       IN  /\ table' = out.table
           /\ threads' = [threads EXCEPT ![w] = out.thread]
    /\ UNCHANGED <<nextId, session, req, resp, before>>

NextConc ==
    \/ \E w \in Threads : FindStep(w)
    \/ \E w \in Threads : DeleteStep(w)

SpecConc == InitConc /\ [][NextConc]_vars

(***************************************************************************)
(* Properties                                                              *)
(***************************************************************************)
JsonRequest == check_content_type(req.ctype, "application/json")

ValidBody == req.body \in {Object(m) : m \in ValidMappings}

Created == req.op = "create_products" /\ resp.status = HTTP_201_CREATED

\* C1: a create request with Content-Type application/json and a valid
\* product mapping is answered 201; the body is one serialized product whose
\* id is a positive integer and whose name, description, available and
\* category are those of the request; the Location header is the URL of
\* get_products for that id, and a read of it yields the same body.
C1_CreateAnswered201 ==
    (req.op = "create_products" /\ JsonRequest /\ ValidBody) =>
        /\ resp.status = HTTP_201_CREATED
        /\ resp.kind = "object"
        /\ Len(resp.items) = 1
        /\ LET b == resp.items[1]
               read == get_products_view(table, nextId, resp.location.id).resp
           IN  /\ b.id.t = "num"
               /\ b.id.n >= 1
               /\ b.name = req.body.f.name
               /\ b.description = req.body.f.description
               /\ b.available = req.body.f.available
               /\ b.category = req.body.f.category
               /\ resp.location = url_for_get_products(b.id.n)
               /\ read.status = HTTP_200_OK
               /\ read.items = <<b>>

C1_Witness ==
    /\ Created
    /\ JsonRequest
    /\ ValidBody
    /\ req.body.f.price.t = "num"
    /\ before # {}

\* C2: after a create succeeds, find(E.id) returns a record equal to the
\* created entity E on id, name, description, price, available and category,
\* and all() holds exactly one more record than before.
C2_CreateThenFind ==
    Created =>
        LET E == [deserialize(NewProduct, req.body).product
                     EXCEPT !.id = resp.items[1].id.n]
        IN  /\ Found(table, E.id)
            /\ find(table, E.id) = E
            /\ \A r \in table : r.id = E.id => r = E
            /\ Cardinality(all(table)) = Cardinality(all(before)) + 1

C2_Witness ==
    /\ Created
    /\ Cardinality(all(before)) = 2
    /\ Cardinality(all(table)) = 3

\* C3: no two stored products share an id in any reachable state, and the id
\* a create assigns is that of no product stored when the request arrived,
\* whatever id the body carries.
C3_UniqueIds ==
    /\ \A r1, r2 \in table : r1.id = r2.id => r1 = r2
    /\ Created =>
          /\ ~Found(before, resp.items[1].id.n)
          /\ Found(table, resp.items[1].id.n)
          /\ table \ before = {r \in table : r.id = resp.items[1].id.n}

C3_Witness ==
    /\ Created
    /\ req.body.f.id.t = "num"
    /\ Found(before, req.body.f.id.n)
    /\ resp.items[1].id.n # req.body.f.id.n

Updated == req.op = "update_products" /\ resp.status = HTTP_200_OK

\* C4: an update request with a valid body for a stored id is answered 200
\* with the serialized updated product; the collection keeps its number of
\* records, a read of the id shows the field values of the body, and the
\* record's id is the id of the path even when the body carries another id.
C4_UpdateStored ==
    (req.op = "update_products" /\ JsonRequest /\ ValidBody /\ Found(before, req.id)) =>
        /\ resp.status = HTTP_200_OK
        /\ resp.kind = "object"
        /\ Len(resp.items) = 1
        /\ Cardinality(table) = Cardinality(before)
        /\ LET b == resp.items[1]
               read == get_products_view(table, nextId, req.id).resp
           IN  /\ read.status = HTTP_200_OK
               /\ read.items = <<b>>
               /\ b.id = Num(req.id)
               /\ b.name = req.body.f.name
               /\ b.description = req.body.f.description
               /\ ParsePrice(b.price) = ParsePrice(req.body.f.price)
               /\ b.available = req.body.f.available
               /\ b.category = req.body.f.category

C4_Witness ==
    /\ Updated
    /\ req.body.f.id.t = "num"
    /\ req.body.f.id.n # req.id
    /\ Found(before, req.body.f.id.n)
    /\ serialize(find(before, req.id)).name # req.body.f.name

\* C5: a delete request is answered 204 whether or not the id is stored;
\* afterwards find(id) is absent and a read of the id is answered 404; a
\* second delete of the id is answered 204 and changes nothing; every other
\* stored product is as it was.
C5_DeleteIdempotent ==
    req.op = "delete_products" =>
        /\ resp.status = HTTP_204_NO_CONTENT
        /\ ~Found(table, req.id)
        /\ get_products_view(table, nextId, req.id).resp.status = HTTP_404_NOT_FOUND
        /\ LET again == delete_products_view(table, nextId, req.id)
           IN  /\ again.resp.status = HTTP_204_NO_CONTENT
               /\ again.table = table
               /\ again.nextId = nextId
        /\ table = {r \in before : r.id # req.id}

C5_Witness ==
    /\ req.op = "delete_products"
    /\ Found(before, req.id)
    /\ Cardinality(before) = 3
    /\ Cardinality(table) = 2

\* C6: a read or an update (with Content-Type application/json) of an id
\* that is not stored is answered 404 and the update stores nothing; a read
\* of a stored id is answered 200 with the serialization of that record.
C6_AbsentIs404 ==
    /\ (req.op = "get_products" /\ ~Found(before, req.id)) =>
          /\ resp.status = HTTP_404_NOT_FOUND
          /\ table = before
    /\ (req.op = "update_products" /\ JsonRequest /\ ~Found(before, req.id)) =>
          /\ resp.status = HTTP_404_NOT_FOUND
          /\ table = before
          /\ ~Found(table, req.id)
    /\ (req.op = "get_products" /\ Found(before, req.id)) =>
          /\ resp.status = HTTP_200_OK
          /\ resp.items = <<serialize(find(before, req.id))>>
          /\ resp.items[1].id = Num(req.id)

C6_Witness ==
    /\ req.op = "update_products"
    /\ JsonRequest
    /\ ValidBody
    /\ ~Found(before, req.id)
    /\ req.id > 0
    /\ before # {}
    /\ resp.status = HTTP_404_NOT_FOUND

\* the response array as a set of serialized records, without repetition
ItemsAre(S) ==
    /\ resp.status = HTTP_200_OK
    /\ resp.kind = "array"
    /\ Len(resp.items) = Cardinality(S)
    /\ {resp.items[i] : i \in 1 .. Len(resp.items)} = {serialize(r) : r \in S}

\* the query words that stand for true
TrueWords == {"true", "True", "1", "YES"}

\* C7: a list request whose query parameters are each absent or non-empty
\* applies exactly one filter, chosen in the order name, category,
\* available: find_by_name if name is given, else find_by_category if
\* category is given, else find_by_availability if available is given, else
\* all().
C7_FilterPrecedence ==
    (/\ req.op = "list_products"
     /\ \A k \in {"name", "category", "available"} :
            req.args[k].present => req.args[k].v # "") =>
        IF req.args.name.present THEN ItemsAre(find_by_name(before, req.args.name.v))
        ELSE IF req.args.category.present
             THEN ItemsAre(find_by_category(before, req.args.category.v))
        ELSE IF req.args.available.present
             THEN ItemsAre(find_by_availability(before, req.args.available.v \in TrueWords))
        ELSE ItemsAre(all(before))

C7_Witness ==
    /\ req.op = "list_products"
    /\ req.args.name.present /\ req.args.name.v # ""
    /\ req.args.category.present /\ req.args.category.v # ""
    /\ req.args.available.present /\ req.args.available.v # ""
    /\ LET byName == find_by_name(before, req.args.name.v)
           byCategory == find_by_category(before, req.args.category.v)
           byAvailable == find_by_availability(before, req.args.available.v \in TrueWords)
       IN  /\ byName # {}
           /\ byName # byCategory
           /\ byName # byAvailable
           /\ byCategory # byAvailable
           /\ byName # before
           /\ ItemsAre(byName)

OnlyArg(k) ==
    /\ req.op = "list_products"
    /\ req.args[k].present
    /\ \A j \in {"name", "category", "available"} \ {k} : ~req.args[j].present

\* C8: a list request filtered by name, by category or by availability
\* alone returns exactly the stored records whose field equals the argument:
\* every item has the field value asked for, every stored record with that
\* value is among the items, and no item occurs twice.
C8_FilterExact ==
    /\ (OnlyArg("name") /\ req.args.name.v # "") =>
          /\ resp.status = HTTP_200_OK
          /\ \A i \in 1 .. Len(resp.items) : resp.items[i].name = Str(req.args.name.v)
          /\ \A r \in before : r.name = req.args.name.v =>
                \E i \in 1 .. Len(resp.items) : resp.items[i] = serialize(r)
          /\ \A i, j \in 1 .. Len(resp.items) : resp.items[i] = resp.items[j] => i = j
          /\ Len(resp.items) = Cardinality({r \in all(before) : r.name = req.args.name.v})
    /\ (OnlyArg("category") /\ req.args.category.v # "") =>
          /\ resp.status = HTTP_200_OK
          /\ \A i \in 1 .. Len(resp.items) : resp.items[i].category = Str(req.args.category.v)
          /\ \A r \in before : CategoryName(r.category) = req.args.category.v =>
                \E i \in 1 .. Len(resp.items) : resp.items[i] = serialize(r)
          /\ \A i, j \in 1 .. Len(resp.items) : resp.items[i] = resp.items[j] => i = j
          /\ Len(resp.items) =
                Cardinality({r \in all(before) : CategoryName(r.category) = req.args.category.v})
    /\ OnlyArg("available") =>
          LET a == req.args.available.v \in TrueWords
          IN  /\ resp.status = HTTP_200_OK
              /\ \A i \in 1 .. Len(resp.items) : resp.items[i].available = Bool(a)
              /\ \A r \in before : r.available = a =>
                    \E i \in 1 .. Len(resp.items) : resp.items[i] = serialize(r)
              /\ \A i, j \in 1 .. Len(resp.items) : resp.items[i] = resp.items[j] => i = j
              /\ Len(resp.items) = Cardinality({r \in all(before) : r.available = a})

\* two CLOTHS products and one FOOD product are stored and category=CLOTHS
\* is asked for
C8_Witness ==
    /\ OnlyArg("category")
    /\ req.args.category.v = "CLOTHS"
    /\ Cardinality(before) = 3
    /\ Cardinality({r \in before : CategoryName(r.category) = "CLOTHS"}) = 2
    /\ Cardinality({r \in before : CategoryName(r.category) = "FOOD"}) = 1
    /\ Len(resp.items) = 2

\* the bodies section 7 has answered 400: missing, not JSON, not a mapping,
\* a required key missing, `available` not a boolean, `category` unknown
InvalidBody ==
    req.body \in {NoBody, BadJson, ArrayBody} \cup {Object(m) : m \in InvalidMappings}

\* C9: a create request with Content-Type application/json and an invalid
\* body is answered 400 and stores no record.
C9_InvalidCreate400 ==
    (req.op = "create_products" /\ JsonRequest /\ InvalidBody) =>
        /\ resp.status = HTTP_400_BAD_REQUEST
        /\ table = before

\* C10: for a valid mapping M, the entity deserialized from M, serialized
\* (as the create response is) and deserialized into a fresh entity, equals
\* the first on name, description, price, available and category.
C10_RoundTrip ==
    Created =>
        LET first == deserialize(NewProduct, req.body)
            again == deserialize(NewProduct, Object(serialize(first.product)))
            echoed == deserialize(NewProduct, Object(resp.items[1]))
            SameFields(p, q) ==
                /\ p.name = q.name
                /\ p.description = q.description
                /\ p.price = q.price
                /\ p.available = q.available
                /\ p.category = q.category
        IN  /\ first.ok /\ again.ok /\ echoed.ok
            /\ SameFields(again.product, first.product)
            /\ SameFields(echoed.product, first.product)
            /\ SameFields(echoed.product, find(table, resp.items[1].id.n))
            /\ resp.items[1].category = Str(CategoryName(first.product.category))
            /\ resp.items[1].available = Bool(first.product.available)

C10_Witness ==
    /\ Created
    /\ req.body.f.price.t = "num"
    /\ resp.items[1].price.t = "dec"
    /\ resp.items[1].price # req.body.f.price
    /\ resp.items[1].category = Str("FOOD")
    /\ resp.items[1].available = Bool(FALSE)

\* C11: a reset request is answered 204 from any state and leaves the
\* collection empty: all() is empty, an unfiltered list is the empty array
\* and a read of every id stored before is answered 404.
C11_ResetEmpties ==
    req.op = "reset_products" =>
        /\ resp.status = HTTP_204_NO_CONTENT
        /\ all(table) = {}
        /\ LET listed == list_products_view(table, nextId, NoArgs).resp
           IN  /\ listed.status = HTTP_200_OK
               /\ listed.kind = "array"
               /\ listed.items = <<>>
        /\ \A r \in before :
              get_products_view(table, nextId, r.id).resp.status = HTTP_404_NOT_FOUND

C11_Witness ==
    /\ req.op = "reset_products"
    /\ Cardinality(before) = 3
    /\ table = {}

\* C12: when the available parameter governs a list request (no non-empty
\* name or category), its value stands for true exactly when its lower-case
\* form is "true", "1" or "yes" and for false otherwise ("false", "0", "no"
\* and the empty string included); the records returned are those whose
\* available field is that boolean.
C12_AvailableWords ==
    (/\ req.op = "list_products"
     /\ ~Truthy(req.args.name)
     /\ ~Truthy(req.args.category)
     /\ req.args.available.present) =>
        /\ req.args.available.v \in TrueWords =>
              ItemsAre({r \in before : r.available = TRUE})
        /\ req.args.available.v \in {"", "false", "0", "no"} =>
              ItemsAre({r \in before : r.available = FALSE})

C12_Witness ==
    /\ req.op = "list_products"
    /\ req.args = [name |-> NoArg, category |-> NoArg, available |-> Arg("YES")]
    /\ \E r \in before : r.available
    /\ \E r \in before : ~r.available
    /\ ItemsAre({r \in before : r.available = TRUE})

\* C15 as claimed: a name parameter that is present governs the result
\* whatever its value, so a name of "" sent with category or available
\* yields the records named "" and the other filters are ignored.
C15_EmptyNameGoverns ==
    (/\ req.op = "list_products"
     /\ req.args.name.present
     /\ req.args.name.v = ""
     /\ req.args.category.present \/ req.args.available.present) =>
        ItemsAre(find_by_name(before, req.args.name.v))

\* C15 amended: a name that is present and non-empty governs the result; a
\* name of "" is treated as absent: the request is filtered by category if
\* that is non-empty, else by available if that is present, else not at all.
C15_EmptyNameIsAbsent ==
    req.op = "list_products" =>
        /\ (req.args.name.present /\ req.args.name.v # "") =>
              ItemsAre(find_by_name(before, req.args.name.v))
        /\ (req.args.name.present /\ req.args.name.v = "") =>
              IF req.args.category.present /\ req.args.category.v # ""
              THEN ItemsAre({r \in before : CategoryName(r.category) = req.args.category.v})
              ELSE IF req.args.available.present
                   THEN ItemsAre({r \in before :
                                    r.available = (req.args.available.v \in TrueWords)})
              ELSE ItemsAre(before)

C15_Witness ==
    /\ req.op = "list_products"
    /\ req.args.name = Arg("")
    /\ req.args.category = Arg("CLOTHS")
    /\ req.args.available = Arg("false")
    /\ Len(resp.items) = 2
    /\ Cardinality(before) = 3
    /\ \E r \in before : CategoryName(r.category) = "CLOTHS" /\ r.available

\* C16: a create or update request whose Content-Type is missing or is not
\* exactly "application/json" is answered 415, whether or not the id is
\* stored and whatever the body, and leaves the collection as it was; an
\* update with the right Content-Type for an id that is not stored is
\* answered 404 whatever the body.
C16_ContentTypeFirst ==
    /\ (req.op \in {"create_products", "update_products"} /\ ~JsonRequest) =>
          /\ resp.status = HTTP_415_UNSUPPORTED_MEDIA_TYPE
          /\ table = before
    /\ (req.op = "update_products" /\ JsonRequest /\ ~Found(before, req.id)) =>
          /\ resp.status = HTTP_404_NOT_FOUND
          /\ table = before

C16_Witness ==
    /\ req.op = "update_products"
    /\ req.ctype = ContentType("application/json; charset=utf-8")
    /\ ~Found(before, req.id)
    /\ before # {}
    /\ InvalidBody
    /\ resp.status = HTTP_415_UNSUPPORTED_MEDIA_TYPE

\* C18: the read-only requests (health, index, read of one product, list
\* with any query parameters), whether answered 200 or 404, leave the stored
\* collection as it was.
C18_ReadsChangeNothing ==
    req.op \in {"healthcheck", "index", "get_products", "list_products"} =>
        /\ table = before
        /\ resp.status \in {HTTP_200_OK, HTTP_404_NOT_FOUND}

C18_Witness ==
    /\ req.op = "get_products"
    /\ resp.status = HTTP_200_OK
    /\ Cardinality(before) = 3
    /\ table = before

\* C13: the product operations are served at the paths of the table of
\* section 4.3: a request of one of its method/path pairs (POST and GET on
\* /products; GET, PUT and DELETE on /products/{id}; DELETE on
\* /products/reset) reaches the corresponding handler and is not answered
\* 404 by the router.
C13_TablePathsServed ==
    \A c \in ClientRoutes :
        (req.method = c.method /\ req.path = c.rule) => req.op = c.endpoint

C17_ConcurrentDeletes ==
    /\ \A w \in DOMAIN threads :
          threads[w].pc = "done" => threads[w].status = HTTP_204_NO_CONTENT
    /\ (\A w \in DOMAIN threads : threads[w].pc = "done") =>
          \A w \in DOMAIN threads :
              /\ ~Found(table, threads[w].id)
              /\ table = {r \in before : r.id # threads[w].id}

\* both threads found the product before either deleted it
C17_Witness ==
    /\ DOMAIN threads = Threads
    /\ \A w \in Threads :
          /\ threads[w].pc = "done"
          /\ threads[w].found
          /\ threads[w].status = HTTP_204_NO_CONTENT
          /\ Found(before, threads[w].id)
    /\ Cardinality(before) = 3
    /\ Cardinality(table) = 2

====
